---- MODULE Spec2Model ----
(***************************************************************************)
(* Model of rootston's xdg-shell-v6 view implementation                    *)
(* (rootston/xdg_shell_v6.c): the size constraint solver, the move_resize  *)
(* / surface-commit serial negotiation of one toplevel view, and the       *)
(* lifecycle of the popups attached to it.                                 *)
(***************************************************************************)
EXTENDS Integers, Sequences, FiniteSets, TLC

(***************************************************************************)
(* Bounds of the model.                                                    *)
(***************************************************************************)
\* highest configure serial the display hands out
MaxSerial == 2
\* largest dimension and bound tried on the constraint solver
MaxDim == 4
\* number of popup surfaces a client creates
MaxPopups == 2

(***************************************************************************)
(* Input domains.                                                          *)
(***************************************************************************)
ROLE_TOPLEVEL == "TOPLEVEL"
ROLE_POPUP == "POPUP"
Roles == {ROLE_TOPLEVEL, ROLE_POPUP}

\* geometries move_resize is called with: either coordinate at and away
\* from the origin, two widths
Requests ==
    { [x |-> 10, y |-> 0, width |-> 200, height |-> 50],
      [x |-> 0,  y |-> 5, width |-> 300, height |-> 50],
      [x |-> 10, y |-> 5, width |-> 300, height |-> 50],
      [x |-> 0,  y |-> 0, width |-> 200, height |-> 50] }

\* sizes resize is called with
ReqWidth == {200, 300}
ReqHeight == {50}

\* min/max bounds a toplevel may have declared (toplevel->current)
BoundsSet ==
    { [min_width |-> 0,   max_width |-> 0,   min_height |-> 0, max_height |-> 0],
      [min_width |-> 300, max_width |-> 0,   min_height |-> 0, max_height |-> 40] }

\* window geometries a client may commit (0x0: none set)
GeometrySet ==
    { [width |-> 0,   height |-> 0],
      [width |-> 300, height |-> 40] }

\* buffer sizes a client may commit
BufferSet == { [width |-> 200, height |-> 50] }

VARIABLES
    role,                 \* surface->role
    mapped,               \* surface->mapped
    configure_serial,     \* surface->configure_serial: last serial the client acked
    toplevel_current,     \* surface->toplevel->current min/max bounds
    geometry,             \* surface->geometry
    surface_current,      \* view->wlr_surface->current buffer size
    next_serial,          \* next serial of the display
    view_x, view_y,       \* view->x, view->y
    view_width, view_height,
    view_wlr_surface,     \* view->wlr_surface != NULL
    pending_move_resize,  \* view->pending_move_resize
    pending_move_resize_configure_serial,
    req,                  \* arguments of the most recent request
    seq,                  \* move_resize calls since the last commit
    last,                 \* what the most recent handler did
    solver,               \* one run of the constraint solver
    popups,               \* per popup surface: the surface and its roots popup
    view_listeners,       \* listeners of the roots surface still registered
    roots_surface_freed,  \* the per-surface record of the view was freed
    use_after_free,       \* a handler ran on freed memory: "none" or outcome
    wire,                 \* the requests the most recent operation sent
    cursor_mode,          \* seat->cursor->mode
    aborted,              \* an assertion failed
    announced,            \* the shell has announced the surface to the desktop
    issuer                \* arguments of the call that obtained the ticket

viewVars == <<view_x, view_y, view_width, view_height, view_wlr_surface>>
surfaceVars == <<role, mapped, configure_serial, toplevel_current, geometry,
                 surface_current, next_serial>>
ticketVars == <<pending_move_resize, pending_move_resize_configure_serial>>
vars == <<role, mapped, configure_serial, toplevel_current, geometry,
          surface_current, next_serial, view_x, view_y, view_width,
          view_height, view_wlr_surface, pending_move_resize,
          pending_move_resize_configure_serial, req, seq, last, solver, popups,
          view_listeners, roots_surface_freed, use_after_free, wire,
          cursor_mode, aborted, announced, issuer>>

(***************************************************************************)
(* get_size: the window geometry if set, else the buffer size, else 0x0.   *)
(***************************************************************************)
get_size(geom, has_surface, cur) ==
    IF geom.width > 0 /\ geom.height > 0
    THEN [width |-> geom.width, height |-> geom.height]
    ELSE IF has_surface
         THEN [width |-> cur.width, height |-> cur.height]
         ELSE [width |-> 0, height |-> 0]

(***************************************************************************)
(* apply_size_constraints: one dimension, then both.                       *)
(***************************************************************************)
\* variant: a maximum of 0 is taken as a bound like any other
constrain_dim_zero_max(dim, min, max) ==
    IF dim < min THEN min
    ELSE IF dim > max THEN max
    ELSE dim

\* variant: the maximum is taken as an exclusive bound
constrain_dim_exclusive(dim, min, max) ==
    IF dim < min THEN min
    ELSE IF max > 0 /\ dim >= max THEN max - 1
    ELSE dim

constrain_dim(dim, min, max) ==
    IF dim < min THEN min
    ELSE IF max > 0 /\ dim > max THEN max
    ELSE dim

apply_size_constraints(state, width, height) ==
    [width  |-> constrain_dim(width, state.min_width, state.max_width),
     height |-> constrain_dim(height, state.min_height, state.max_height)]

(***************************************************************************)
(* The record move_resize stores in view->pending_move_resize.             *)
(***************************************************************************)
\* variant: the target is not shifted by the constrained difference
move_resize_record_unshifted(vx, vy, x, y, width, height, state) ==
    LET c == apply_size_constraints(state, width, height)
    IN [update_x |-> x # vx,
        update_y |-> y # vy,
        x |-> x,
        y |-> y,
        width |-> c.width,
        height |-> c.height]

move_resize_record(vx, vy, x, y, width, height, state) ==
    LET update_x == x # vx
        update_y == y # vy
        c == apply_size_constraints(state, width, height)
    IN [update_x |-> update_x,
        update_y |-> update_y,
        x |-> IF update_x THEN x + width - c.width ELSE x,
        y |-> IF update_y THEN y + height - c.height ELSE y,
        width |-> c.width,
        height |-> c.height]

\* variant: while a ticket is outstanding only a call that obtains a serial
\* replaces the record
move_resize_pending_kept(old, new, serial, ticket) ==
    IF serial > 0 \/ ticket = 0 THEN new ELSE old

\* the record after the call
move_resize_pending(old, new, serial, ticket) == new

\* variant: a ticket is only taken when none is outstanding
move_resize_serial_first(serial, ticket) ==
    IF serial > 0 /\ ticket = 0 THEN serial ELSE ticket

\* the ticket after the configure request returned serial
move_resize_serial(serial, ticket) ==
    IF serial > 0 THEN serial ELSE ticket

\* variant: the position is applied whenever no serial was returned
move_resize_immediate_always(serial, ticket) ==
    ~(serial > 0)

\* whether move_resize applies the position within the call
move_resize_immediate(serial, ticket) ==
    ~(serial > 0) /\ ticket = 0

(***************************************************************************)
(* Reconciliation in handle_surface_commit.                                *)
(***************************************************************************)
\* variant: the commit is handled whether the surface is mapped or not
commit_handled_always(is_mapped) == TRUE

\* whether the commit is handled at all
commit_handled(is_mapped) == is_mapped

\* variant: the comparison of the two serials is reversed
commit_applies_acked_at_least(pending_serial, acked) ==
    pending_serial > 0 /\ acked >= pending_serial

\* variant: only the exact acknowledgment applies the position
commit_applies_exact(pending_serial, acked) ==
    pending_serial > 0 /\ pending_serial = acked

\* whether the commit applies the deferred position
commit_applies(pending_serial, acked) ==
    pending_serial > 0 /\ pending_serial >= acked

\* variant: the committed size is not taken into account
commit_position_target(vx, vy, pmr, size) ==
    [x |-> IF pmr.update_x THEN pmr.x ELSE vx,
     y |-> IF pmr.update_y THEN pmr.y ELSE vy]

\* the position the commit applies
commit_position(vx, vy, pmr, size) ==
    [x |-> IF pmr.update_x THEN pmr.x + pmr.width - size.width ELSE vx,
     y |-> IF pmr.update_y THEN pmr.y + pmr.height - size.height ELSE vy]

\* variant: any acknowledgment at or past the ticket clears it
commit_serial_acked_at_least(pending_serial, acked) ==
    IF pending_serial > 0 /\ acked >= pending_serial
    THEN 0 ELSE pending_serial

\* variant: the commit never clears the ticket
commit_serial_kept(pending_serial, acked) == pending_serial

\* the ticket after the commit
commit_serial(pending_serial, acked) ==
    IF commit_applies(pending_serial, acked) /\ pending_serial = acked
    THEN 0 ELSE pending_serial

(***************************************************************************)
(* Configure requests of the xdg-shell library: a request either yields    *)
(* no serial (0) or the next, higher serial of the display.                *)
(***************************************************************************)
Yields == {0} \cup (IF next_serial <= MaxSerial THEN {next_serial} ELSE {})

schedule_configure(serial) ==
    next_serial' = IF serial > 0 THEN serial + 1 ELSE next_serial

NoSolver == [pc |-> "idle", state |-> [min_width |-> 0, max_width |-> 0,
                                      min_height |-> 0, max_height |-> 0],
             width |-> 0, height |-> 0,
             out |-> [width |-> 0, height |-> 0],
             again |-> [width |-> 0, height |-> 0]]
PopupIds == 1..MaxPopups
\* the signals of a popup surface popup_create listens to
PopupSignals == {"destroy", "map", "unmap", "new_popup"}
\* the signals handle_xdg_shell_v6_surface listens to
ViewSignals == {"surface_commit", "destroy", "map", "unmap", "request_move",
                "request_resize", "request_maximize", "request_fullscreen",
                "new_popup"}
\* a popup surface the client has not created yet
NoPopup == [surface |-> "none", mapped |-> FALSE, parent |-> 0,
            popup |-> "none", view |-> 0, listeners |-> {}, child |-> FALSE]
popupVars == <<popups, view_listeners, roots_surface_freed, use_after_free>>
NoPopups ==
    /\ popups = [p \in PopupIds |-> NoPopup]
    /\ view_listeners = ViewSignals
    /\ roots_surface_freed = FALSE
    /\ use_after_free = "none"

\* a request sent to the client
Send(msg, surface, width, height) ==
    [msg |-> msg, surface |-> surface, width |-> width, height |-> height,
     flag |-> FALSE]

\* a request to the toplevel that carries a flag
SendFlag(msg, flag) == [Send(msg, 0, 0, 0) EXCEPT !.flag = flag]

ROOTS_CURSOR_PASSTHROUGH == "PASSTHROUGH"
\* nothing sent, the seat idle, no assertion failed, the surface announced
\* and no ticket obtained
quietVars == <<cursor_mode, aborted, announced, issuer>>
Quiet ==
    /\ wire = <<>>
    /\ cursor_mode = ROOTS_CURSOR_PASSTHROUGH
    /\ aborted = FALSE
    /\ announced = TRUE
    /\ issuer = [x |-> 0, y |-> 0, width |-> 0, height |-> 0]

\* calls: move_resize calls since the last mapped commit (2: two or more);
\* serial: the last serial one of them obtained; closed: the calls the last
\* mapped commit followed
NoSeq == [calls |-> 0, serial |-> 0, closed |-> 0]
NoReq == [x |-> 0, y |-> 0, width |-> 0, height |-> 0]
NoRecord == [update_x |-> FALSE, update_y |-> FALSE, x |-> 0, y |-> 0,
             width |-> 0, height |-> 0]
\* damaged: the handler notified damage of the view
Did(op, moved) == [op |-> op, moved |-> moved, damaged |-> FALSE]

(***************************************************************************)
(* Initial state: the view and the per-surface record come from calloc.    *)
(***************************************************************************)
Init ==
    /\ role \in Roles
    /\ mapped = FALSE
    /\ configure_serial = 0
    /\ toplevel_current \in BoundsSet
    /\ geometry = [width |-> 0, height |-> 0]
    /\ surface_current = [width |-> 0, height |-> 0]
    /\ next_serial = 1
    /\ view_x = 0 /\ view_y = 0
    /\ view_width = 0 /\ view_height = 0
    /\ view_wlr_surface = FALSE
    /\ pending_move_resize = NoRecord
    /\ pending_move_resize_configure_serial = 0
    /\ req = NoReq
    /\ seq = NoSeq
    /\ last = Did("init", FALSE)
    /\ solver = NoSolver
    /\ NoPopups
    /\ Quiet

(***************************************************************************)
(* View operations.                                                        *)
(***************************************************************************)
move_resize ==
    \E r \in Requests :
    \E serial \in Yields :
        IF role # ROLE_TOPLEVEL
        THEN /\ last' = Did("move_resize", FALSE)
             /\ UNCHANGED <<surfaceVars, viewVars, ticketVars, req, seq>>
        ELSE LET pmr == move_resize_record(view_x, view_y, r.x, r.y, r.width,
                                           r.height, toplevel_current)
                 now == move_resize_immediate(serial,
                            pending_move_resize_configure_serial)
             IN /\ pending_move_resize' =
                       move_resize_pending(pending_move_resize, pmr, serial,
                           pending_move_resize_configure_serial)
                /\ schedule_configure(serial)
                /\ pending_move_resize_configure_serial' =
                       move_resize_serial(serial,
                           pending_move_resize_configure_serial)
                /\ view_x' = IF now THEN pmr.x ELSE view_x
                /\ view_y' = IF now THEN pmr.y ELSE view_y
                /\ req' = r
                /\ seq' = [calls |-> IF seq.calls < 2 THEN seq.calls + 1 ELSE 2,
                           serial |-> IF serial > 0 THEN serial ELSE seq.serial,
                           closed |-> 0]
                /\ last' = Did("move_resize", now)
                /\ UNCHANGED <<role, mapped, configure_serial,
                               toplevel_current, geometry, surface_current,
                               view_width, view_height, view_wlr_surface>>

(***************************************************************************)
(* Client events.                                                          *)
(***************************************************************************)
\* the client acknowledges a configure it has not acknowledged yet
ack_configure ==
    \E serial \in 1..MaxSerial :
        /\ serial < next_serial
        /\ serial > configure_serial
        /\ configure_serial' = serial
        /\ last' = Did("ack_configure", FALSE)
        /\ UNCHANGED <<role, mapped, toplevel_current, geometry,
                       surface_current, next_serial, viewVars, ticketVars,
                       req, seq>>

handle_surface_commit ==
    \E geom \in GeometrySet, cur \in BufferSet :
        /\ geometry' = geom
        /\ surface_current' = cur
        /\ IF ~commit_handled(mapped)
           THEN /\ last' = Did("handle_surface_commit", FALSE)
                /\ UNCHANGED <<viewVars, ticketVars, seq>>
           ELSE LET size == get_size(geom, view_wlr_surface, cur)
                    pending_serial == pending_move_resize_configure_serial
                    applies == commit_applies(pending_serial, configure_serial)
                    pos == commit_position(view_x, view_y,
                                           pending_move_resize, size)
                IN /\ view_width' = size.width
                   /\ view_height' = size.height
                   /\ view_x' = IF applies THEN pos.x ELSE view_x
                   /\ view_y' = IF applies THEN pos.y ELSE view_y
                   /\ pending_move_resize_configure_serial' =
                          commit_serial(pending_serial, configure_serial)
                   /\ seq' = [NoSeq EXCEPT !.closed = seq.calls]
                   /\ last' = [Did("handle_surface_commit", applies)
                                   EXCEPT !.damaged = TRUE]
                   /\ UNCHANGED <<pending_move_resize, view_wlr_surface>>
        /\ UNCHANGED <<role, mapped, configure_serial, toplevel_current,
                       next_serial, req>>

(***************************************************************************)
(* resize: a configure request with the constrained size, no bookkeeping.  *)
(***************************************************************************)
resize ==
    \E width \in ReqWidth, height \in ReqHeight :
    \E serial \in Yields :
        /\ last' = Did("resize", FALSE)
        /\ IF role # ROLE_TOPLEVEL
           THEN UNCHANGED next_serial
           ELSE schedule_configure(serial)
        /\ UNCHANGED <<role, mapped, configure_serial, toplevel_current,
                       geometry, surface_current, viewVars, ticketVars, req,
                       seq>>

handle_map ==
    /\ ~mapped
    /\ mapped' = TRUE
    /\ LET box == get_size(geometry, view_wlr_surface, surface_current)
       IN /\ view_width' = box.width
          /\ view_height' = box.height
    /\ view_wlr_surface' = TRUE
    /\ last' = Did("handle_map", FALSE)
    /\ UNCHANGED <<role, configure_serial, toplevel_current, geometry,
                   surface_current, next_serial, view_x, view_y, ticketVars,
                   req, seq>>

handle_unmap ==
    /\ mapped
    /\ mapped' = FALSE
    /\ view_wlr_surface' = FALSE
    /\ last' = Did("handle_unmap", FALSE)
    /\ UNCHANGED <<role, configure_serial, toplevel_current, geometry,
                   surface_current, next_serial, view_x, view_y, view_width,
                   view_height, ticketVars, req, seq>>

Next ==
    \/ move_resize /\ UNCHANGED <<solver, popupVars, wire, quietVars>>
    \/ resize /\ UNCHANGED <<solver, popupVars, wire, quietVars>>
    \/ ack_configure /\ UNCHANGED <<solver, popupVars, wire, quietVars>>
    \/ handle_surface_commit /\ UNCHANGED <<solver, popupVars, wire, quietVars>>
    \/ handle_map /\ UNCHANGED <<solver, popupVars, wire, quietVars>>
    \/ handle_unmap /\ UNCHANGED <<solver, popupVars, wire, quietVars>>

Spec == Init /\ [][Next]_vars

(***************************************************************************)
(* The negotiation of a toplevel that stays mapped once it is mapped, with *)
(* the call that obtained the serial of the outstanding ticket on record.  *)
(***************************************************************************)
InitIssuer == Init /\ role = ROLE_TOPLEVEL

recordFrame == <<solver, popupVars, wire, cursor_mode, aborted, announced>>

\* move_resize, the call on record if it obtained a serial
move_resize_issuing ==
    /\ move_resize
    /\ issuer' = IF next_serial' > next_serial THEN req' ELSE issuer
    /\ UNCHANGED recordFrame

\* the commit, no call on record once the ticket is cleared
commit_clearing ==
    /\ handle_surface_commit
    /\ issuer' = IF pending_move_resize_configure_serial' = 0
                 THEN NoReq ELSE issuer
    /\ UNCHANGED recordFrame

NextIssuer ==
    \/ move_resize_issuing
    \/ commit_clearing
    \/ ack_configure /\ UNCHANGED <<issuer, recordFrame>>
    \/ handle_map /\ UNCHANGED <<issuer, recordFrame>>
    \/ resize /\ UNCHANGED <<issuer, recordFrame>>

SpecIssuer == InitIssuer /\ [][NextIssuer]_vars

\* the same with a client that keeps committing
SpecLive == InitIssuer /\ [][NextIssuer]_vars /\ WF_vars(commit_clearing)

(***************************************************************************)
(* The constraint solver on its own: bounds and a requested size are drawn *)
(* from 0..MaxDim, the solver runs, then runs again on its own output.     *)
(***************************************************************************)
Dims == 0..MaxDim

InitSolver ==
    /\ role = ROLE_TOPLEVEL
    /\ mapped = FALSE
    /\ configure_serial = 0
    /\ toplevel_current \in [min_width : Dims, max_width : Dims,
                              min_height : Dims, max_height : Dims]
    /\ geometry = [width |-> 0, height |-> 0]
    /\ surface_current = [width |-> 0, height |-> 0]
    /\ next_serial = 1
    /\ view_x = 0 /\ view_y = 0
    /\ view_width = 0 /\ view_height = 0
    /\ view_wlr_surface = FALSE
    /\ pending_move_resize = NoRecord
    /\ pending_move_resize_configure_serial = 0
    /\ req = NoReq
    /\ seq = NoSeq
    /\ last = Did("init", FALSE)
    /\ \E width \in Dims, height \in Dims :
           solver = [NoSolver EXCEPT !.state = toplevel_current,
                                     !.width = width, !.height = height]
    /\ NoPopups
    /\ Quiet

solverFrame == <<role, mapped, configure_serial, toplevel_current, geometry,
                 surface_current, next_serial, view_x, view_y, view_width,
                 view_height, view_wlr_surface, pending_move_resize,
                 pending_move_resize_configure_serial, req, seq, last, popups,
                 view_listeners, roots_surface_freed, use_after_free, wire,
                 cursor_mode, aborted, announced, issuer>>

\* the solver is applied to the requested size
Constrain ==
    /\ solver.pc = "idle"
    /\ solver' = [solver EXCEPT
                      !.pc = "constrained",
                      !.out = apply_size_constraints(solver.state,
                                  solver.width, solver.height)]
    /\ UNCHANGED solverFrame

\* the solver is applied to its own output
ConstrainAgain ==
    /\ solver.pc = "constrained"
    /\ solver' = [solver EXCEPT
                      !.pc = "again",
                      !.again = apply_size_constraints(solver.state,
                                    solver.out.width, solver.out.height)]
    /\ UNCHANGED solverFrame

NextSolver ==
    \/ Constrain
    \/ ConstrainAgain

SpecSolver == InitSolver /\ [][NextSolver]_vars

(***************************************************************************)
(* The popups of one view.  The client creates popup surfaces below the    *)
(* toplevel or below another popup, maps, unmaps and destroys them, and    *)
(* the toplevel surface is destroyed, which destroys the view.             *)
(***************************************************************************)
\* popup_create: nothing on allocation failure, else a popup attached to
\* view with its four listeners registered
popup_create(surf, view, allocated) ==
    IF ~allocated
    THEN surf
    ELSE [surf EXCEPT !.popup = "live", !.view = view, !.child = TRUE,
                      !.listeners = {"destroy", "map", "unmap", "new_popup"}]

\* popup_destroy: unlink listeners, view_child_finish, free
popup_destroy(surf) ==
    [surf EXCEPT !.listeners = surf.listeners \ {"destroy", "new_popup"},
                 !.child = FALSE,
                 !.popup = "freed"]

\* what a handler that runs on freed popup memory can lead to
FreedOutcomes == {"stale_read", "crash"}

popupFrame == <<role, mapped, configure_serial, toplevel_current, geometry,
                surface_current, next_serial, view_x, view_y, view_width,
                view_height, view_wlr_surface, pending_move_resize,
                pending_move_resize_configure_serial, req, seq, solver, wire,
                cursor_mode, aborted, announced, issuer>>

InitPopup ==
    /\ role = ROLE_TOPLEVEL
    /\ mapped = FALSE
    /\ configure_serial = 0
    /\ toplevel_current = [min_width |-> 0, max_width |-> 0,
                           min_height |-> 0, max_height |-> 0]
    /\ geometry = [width |-> 0, height |-> 0]
    /\ surface_current = [width |-> 0, height |-> 0]
    /\ next_serial = 1
    /\ view_x = 0 /\ view_y = 0
    /\ view_width = 0 /\ view_height = 0
    /\ view_wlr_surface = FALSE
    /\ pending_move_resize = NoRecord
    /\ pending_move_resize_configure_serial = 0
    /\ req = NoReq
    /\ seq = NoSeq
    /\ last = Did("init", FALSE)
    /\ solver = NoSolver
    /\ NoPopups
    /\ Quiet

\* the client creates popup p below the toplevel surface
handle_new_popup(p) ==
    /\ ~roots_surface_freed
    /\ popups[p].surface = "none"
    /\ \E allocated \in BOOLEAN :
        LET surf == [NoPopup EXCEPT !.surface = "alive", !.parent = 0]
        IN popups' = [popups EXCEPT ![p] =
                         IF "new_popup" \in view_listeners
                         THEN popup_create(surf, 0, allocated)
                         ELSE surf]
    /\ last' = Did("handle_new_popup", FALSE)
    /\ UNCHANGED <<view_listeners, roots_surface_freed, use_after_free,
                   popupFrame>>

\* the view a popup created below popup q is attached to
nested_view_spawner(ps, q) == q

nested_view(ps, q) == ps[q].view

\* the client creates popup p below the popup surface q
popup_handle_new_popup(q, p) ==
    /\ q # p
    /\ popups[q].surface = "alive"
    /\ popups[p].surface = "none"
    /\ \E allocated \in BOOLEAN :
        LET surf == [NoPopup EXCEPT !.surface = "alive", !.parent = q]
        IN popups' = [popups EXCEPT ![p] =
                         IF "new_popup" \in popups[q].listeners
                         THEN popup_create(surf, nested_view(popups, q), allocated)
                         ELSE surf]
    /\ last' = Did("popup_handle_new_popup", FALSE)
    /\ UNCHANGED <<view_listeners, roots_surface_freed, use_after_free,
                   popupFrame>>

\* the handler of a map or unmap event reads the popup it belongs to
popup_damage(p, signal) ==
    IF signal \in popups[p].listeners /\ popups[p].popup = "freed"
    THEN use_after_free' \in FreedOutcomes
    ELSE UNCHANGED use_after_free

popup_handle_map(p) ==
    /\ popups[p].surface = "alive"
    /\ ~popups[p].mapped
    /\ popups' = [popups EXCEPT ![p].mapped = TRUE]
    /\ popup_damage(p, "map")
    /\ last' = Did("popup_handle_map", FALSE)
    /\ UNCHANGED <<view_listeners, roots_surface_freed, popupFrame>>

popup_handle_unmap(p) ==
    /\ popups[p].surface = "alive"
    /\ popups[p].mapped
    /\ popups' = [popups EXCEPT ![p].mapped = FALSE]
    /\ popup_damage(p, "unmap")
    /\ last' = Did("popup_handle_unmap", FALSE)
    /\ UNCHANGED <<view_listeners, roots_surface_freed, popupFrame>>

\* the popup surface p is destroyed; its signals go away with it
popup_handle_destroy(p) ==
    /\ popups[p].surface = "alive"
    /\ LET surf == IF "destroy" \in popups[p].listeners
                   THEN popup_destroy(popups[p])
                   ELSE popups[p]
       IN popups' = [popups EXCEPT ![p] =
                        [surf EXCEPT !.surface = "destroyed",
                                     !.mapped = FALSE,
                                     !.listeners = {}]]
    /\ last' = Did("popup_handle_destroy", FALSE)
    /\ UNCHANGED <<view_listeners, roots_surface_freed, use_after_free,
                   popupFrame>>

\* view_destroy: every child still attached to the view is destroyed
view_destroy_children(ps) ==
    [p \in PopupIds |-> IF ps[p].child THEN popup_destroy(ps[p]) ELSE ps[p]]

\* destroy: the listeners left once destroy has unlinked its nine
destroy(listeners) ==
    listeners \ {"surface_commit", "destroy", "new_popup", "map", "unmap",
                 "request_move", "request_resize", "request_maximize",
                 "request_fullscreen"}

\* the toplevel surface is destroyed: the view destroys its children, then
\* destroy unlinks the listeners and frees the per-surface record
handle_destroy ==
    /\ ~roots_surface_freed
    /\ popups' = view_destroy_children(popups)
    /\ view_listeners' = destroy(view_listeners)
    /\ roots_surface_freed' = TRUE
    /\ last' = Did("handle_destroy", FALSE)
    /\ UNCHANGED <<use_after_free, popupFrame>>

\* surface->popups: the live popup surfaces created directly below the
\* toplevel surface
surface_popups(ps) ==
    {p \in PopupIds : ps[p].surface = "alive" /\ ps[p].parent = 0}

\* the orders in which a list holding the members of S can be walked
Orders(S) ==
    {o \in [1..Cardinality(S) -> S] :
        \A i, j \in 1..Cardinality(S) : o[i] = o[j] => i = j}

\* close: the requests sent for the popup list walked in this order
close_requests_toplevel_first(order) ==
    <<Send("close", 0, 0, 0)>> \o
    [i \in 1..Len(order) |-> Send("close", order[i], 0, 0)]

close_requests(order) ==
    [i \in 1..Len(order) |-> Send("close", order[i], 0, 0)] \o
    <<Send("close", 0, 0, 0)>>

closeFrame == <<role, mapped, configure_serial, toplevel_current, geometry,
                surface_current, next_serial, view_x, view_y, view_width,
                view_height, view_wlr_surface, pending_move_resize,
                pending_move_resize_configure_serial, req, seq, solver,
                cursor_mode, aborted, announced, issuer>>

\* the view is asked to close
close ==
    /\ ~roots_surface_freed
    /\ \E order \in Orders(surface_popups(popups)) :
           wire' = close_requests(order)
    /\ last' = Did("close", FALSE)
    /\ UNCHANGED <<popupVars, closeFrame>>

NextPopup ==
    \/ close
    \/ \E p \in PopupIds : handle_new_popup(p)
    \/ \E q \in PopupIds, p \in PopupIds : popup_handle_new_popup(q, p)
    \/ \E p \in PopupIds : popup_handle_map(p)
    \/ \E p \in PopupIds : popup_handle_unmap(p)
    \/ \E p \in PopupIds : popup_handle_destroy(p)
    \/ handle_destroy

SpecPopup == InitPopup /\ [][NextPopup]_vars

(***************************************************************************)
(* One surface from its announcement by the shell: the desktop creates the *)
(* view, the client asks for an interactive move or resize, the seat ends  *)
(* its grab, and the surface emits its signals until it is destroyed.      *)
(***************************************************************************)
\* view_maximize, view_set_fullscreen: forwarded to a configure request
view_requests(maximized, fullscreen) ==
    (IF maximized THEN <<SendFlag("set_maximized", TRUE)>> ELSE <<>>) \o
    (IF fullscreen THEN <<SendFlag("set_fullscreen", TRUE)>> ELSE <<>>)

\* the event data of a move or resize request: whether a seat is found
SeatEvent(found) == [seat |-> found]

InitSurface ==
    /\ role \in Roles
    /\ mapped = FALSE
    /\ configure_serial = 0
    /\ toplevel_current = [min_width |-> 0, max_width |-> 0,
                           min_height |-> 0, max_height |-> 0]
    /\ geometry = [width |-> 0, height |-> 0]
    /\ surface_current = [width |-> 0, height |-> 0]
    /\ next_serial = 1
    /\ view_x = 0 /\ view_y = 0
    /\ view_width = 0 /\ view_height = 0
    /\ view_wlr_surface = FALSE
    /\ pending_move_resize = NoRecord
    /\ pending_move_resize_configure_serial = 0
    /\ req = SeatEvent(FALSE)
    /\ seq = NoSeq
    /\ last = Did("init", FALSE)
    /\ solver = NoSolver
    /\ popups = [p \in PopupIds |-> NoPopup]
    /\ view_listeners = {}
    /\ roots_surface_freed = FALSE
    /\ use_after_free = "none"
    /\ wire = <<>>
    /\ cursor_mode = ROOTS_CURSOR_PASSTHROUGH
    /\ aborted = FALSE
    /\ announced = FALSE
    /\ issuer = NoReq

surfaceFrame == <<role, mapped, configure_serial, toplevel_current, geometry,
                  surface_current, next_serial, view_x, view_y, view_width,
                  view_height, view_wlr_surface, pending_move_resize,
                  pending_move_resize_configure_serial, seq, solver, popups,
                  issuer>>

\* the shell announces the surface: a popup gets no view; a toplevel is
\* pinged, its listeners are registered and its view is created
handle_xdg_shell_v6_surface ==
    /\ ~announced
    /\ announced' = TRUE
    /\ \E allocated \in BOOLEAN, created \in BOOLEAN,
          maximized \in BOOLEAN, fullscreen \in BOOLEAN :
        IF role = ROLE_POPUP
        THEN UNCHANGED <<view_listeners, roots_surface_freed, wire>>
        ELSE /\ view_listeners' = IF allocated THEN ViewSignals ELSE {}
             /\ roots_surface_freed' = (allocated /\ ~created)
             /\ wire' = <<Send("ping", 0, 0, 0)>> \o
                            (IF allocated /\ created
                             THEN view_requests(maximized, fullscreen)
                             ELSE <<>>)
    /\ last' = Did("handle_xdg_shell_v6_surface", FALSE)
    /\ UNCHANGED <<req, use_after_free, cursor_mode, aborted, surfaceFrame>>

\* the gate of an interactive move or resize
seat_idle(found, mode) == found /\ mode = ROOTS_CURSOR_PASSTHROUGH

\* the client asks for an interactive move
handle_request_move ==
    /\ ~aborted
    /\ "request_move" \in view_listeners
    /\ ~roots_surface_freed
    /\ \E found \in BOOLEAN :
        /\ req' = SeatEvent(found)
        /\ cursor_mode' = IF seat_idle(found, cursor_mode)
                          THEN "MOVE" ELSE cursor_mode
        /\ last' = Did("handle_request_move", seat_idle(found, cursor_mode))
    /\ UNCHANGED <<view_listeners, roots_surface_freed, use_after_free, wire,
                   aborted, announced, surfaceFrame>>

\* the client asks for an interactive resize; assert(seat) aborts in a
\* build that keeps assertions
handle_request_resize ==
    /\ ~aborted
    /\ "request_resize" \in view_listeners
    /\ ~roots_surface_freed
    /\ \E found \in BOOLEAN, asserting \in BOOLEAN :
        /\ req' = SeatEvent(found)
        /\ aborted' = (asserting /\ ~found)
        /\ cursor_mode' = IF seat_idle(found, cursor_mode)
                          THEN "RESIZE" ELSE cursor_mode
        /\ last' = Did("handle_request_resize", seat_idle(found, cursor_mode))
    /\ UNCHANGED <<view_listeners, roots_surface_freed, use_after_free, wire,
                   announced, surfaceFrame>>

\* the seat ends its grab
cursor_release ==
    /\ ~aborted
    /\ cursor_mode # ROOTS_CURSOR_PASSTHROUGH
    /\ cursor_mode' = ROOTS_CURSOR_PASSTHROUGH
    /\ last' = Did("cursor_release", FALSE)
    /\ UNCHANGED <<req, view_listeners, roots_surface_freed, use_after_free,
                   wire, aborted, announced, surfaceFrame>>

\* the surface emits a signal whose listener lies in the freed record: the
\* handler reads the record
handle_freed(signal) ==
    /\ ~aborted
    /\ signal \in view_listeners
    /\ roots_surface_freed
    /\ use_after_free' \in FreedOutcomes
    /\ last' = Did(signal, FALSE)
    /\ UNCHANGED <<req, view_listeners, roots_surface_freed, wire, cursor_mode,
                   aborted, announced, surfaceFrame>>

NextSurface ==
    \/ handle_xdg_shell_v6_surface
    \/ handle_request_move
    \/ handle_request_resize
    \/ cursor_release
    \/ \E signal \in ViewSignals : handle_freed(signal)
    \/ ~aborted /\ "destroy" \in view_listeners /\ handle_destroy

SpecSurface == InitSurface /\ [][NextSurface]_vars

(***************************************************************************)
(* The operations of the view with the requests they send: each is called  *)
(* on a view of either role until the view is destroyed.                   *)
(***************************************************************************)
\* variant: the role is not looked at
for_toplevel_any(r) == TRUE

\* the role check of activate, maximize and set_fullscreen
for_toplevel(r) == r = ROLE_TOPLEVEL

\* variant: the size is sent as requested
resize_requests_unconstrained(state, width, height) ==
    <<Send("set_size", 0, width, height)>>

\* resize: the request it sends
resize_requests(state, width, height) ==
    LET c == apply_size_constraints(state, width, height)
    IN <<Send("set_size", 0, c.width, c.height)>>

\* a request with a flag, sent to a toplevel only; it may yield a serial
set_flag(op, msg) ==
    /\ \E flag \in BOOLEAN, serial \in Yields :
        IF for_toplevel(role)
        THEN /\ wire' = <<SendFlag(msg, flag)>>
             /\ schedule_configure(serial)
        ELSE /\ wire' = <<>>
             /\ UNCHANGED next_serial
    /\ last' = Did(op, FALSE)
    /\ UNCHANGED <<role, mapped, configure_serial, toplevel_current, geometry,
                   surface_current, viewVars, ticketVars, req, seq, solver,
                   popupVars, quietVars>>

activate == set_flag("activate", "set_activated")

maximize == set_flag("maximize", "set_maximized")

set_fullscreen == set_flag("set_fullscreen", "set_fullscreen")

\* resize with the request it sends and the solver run it makes
resize_sending ==
    \E width \in ReqWidth, height \in ReqHeight :
        /\ resize
        /\ IF role # ROLE_TOPLEVEL
           THEN /\ wire' = <<>>
                /\ UNCHANGED solver
           ELSE /\ wire' = resize_requests(toplevel_current, width, height)
                /\ solver' = [NoSolver EXCEPT
                                 !.pc = "constrained",
                                 !.state = toplevel_current,
                                 !.width = width, !.height = height,
                                 !.out = apply_size_constraints(
                                             toplevel_current, width, height)]
        /\ UNCHANGED <<popupVars, quietVars>>

\* move_resize with the request it sends
move_resize_sending ==
    /\ move_resize
    /\ wire' = IF role # ROLE_TOPLEVEL
               THEN <<>>
               ELSE <<Send("set_size", 0, pending_move_resize'.width,
                           pending_move_resize'.height)>>
    /\ UNCHANGED <<solver, popupVars, quietVars>>

NextOps ==
    \/ ~roots_surface_freed /\ activate
    \/ ~roots_surface_freed /\ resize_sending
    \/ ~roots_surface_freed /\ move_resize_sending
    \/ ~roots_surface_freed /\ maximize
    \/ ~roots_surface_freed /\ set_fullscreen
    \/ close
    \/ handle_destroy

SpecOps == Init /\ [][NextOps]_vars

(***************************************************************************)
(* Properties of the serial negotiation (checked under Spec).              *)
(***************************************************************************)
ticket == pending_move_resize_configure_serial

\* the step is a surface commit handled while the surface is mapped
MappedCommit == last'.op = "handle_surface_commit" /\ mapped

\* the step is a move_resize call on a toplevel
ToplevelMoveResize == last'.op = "move_resize" /\ role = ROLE_TOPLEVEL

\* the size get_size derives during the commit step
CommittedSize == get_size(geometry', view_wlr_surface, surface_current')

\* the serial the configure request of the step returned
ReturnedSerial == IF next_serial' > next_serial THEN next_serial ELSE 0

PositionUnchanged == view_x' = view_x /\ view_y' = view_y

C2_ClearedOnlyOnExactAck ==
    [][MappedCommit =>
          /\ (ticket # 0 /\ ticket' = 0) <=>
                 (ticket # 0 /\ configure_serial = ticket)
          /\ ticket' \in {0, ticket}
          /\ (ticket # 0 /\ configure_serial > ticket) => ticket' = ticket]_vars

\* a mapped commit ran with the acknowledged serial past the ticket and the
\* ticket is still open
C2_Witness ==
    /\ last.op = "handle_surface_commit"
    /\ mapped
    /\ ticket # 0
    /\ configure_serial > ticket

\* C3 as stated: after two or more move_resize calls without a commit in
\* between, the ticket is the serial of the most recent call.
C3_TicketIsSerialOfLatestCall ==
    [][(ToplevelMoveResize /\ seq.calls >= 1) => ticket' = ReturnedSerial]_vars

\* C3 amended: after two or more move_resize calls without a commit in
\* between, the ticket is the serial of the most recent of those calls that
\* obtained a serial (a call that obtains none leaves the earlier ticket in
\* place), and a position applied by the following commit is computed from
\* the most recent call's requested geometry only.
C3_LatestCallWins ==
    /\ [](seq.calls >= 2 /\ seq.serial # 0 => ticket = seq.serial)
    /\ [][(MappedCommit /\ seq.calls >= 2 /\ last'.moved) =>
            /\ view_x' = IF req.x # view_x
                          THEN req.x + req.width - CommittedSize.width
                          ELSE view_x
            /\ view_y' = IF req.y # view_y
                          THEN req.y + req.height - CommittedSize.height
                          ELSE view_y]_vars

\* a commit applied a position after two calls of which the second moved the
\* target and obtained the ticket
C3_Witness ==
    /\ last.op = "handle_surface_commit" /\ last.moved
    /\ seq.closed = 2
    /\ ticket = 0
    /\ configure_serial = 2
    /\ req.x = 10
    /\ view_x = req.x + req.width - view_width

ConstrainedReq(r) == apply_size_constraints(toplevel_current, r.width, r.height)

\* C7: move_resize(x, y, w, h) on a toplevel stores the constrained size,
\* update flags that are true exactly when the requested coordinate differs
\* from the View's current one, and on flagged axes the target requested +
\* (requested size - constrained size), on unflagged axes the requested
\* coordinate; a commit that acknowledges the ticket with the constrained
\* size committed puts the View at requested + requested size - constrained
\* size on each flagged axis.
C7_ShiftedTarget ==
    /\ [][ToplevelMoveResize =>
            LET c == ConstrainedReq(req')
                ux == req'.x # view_x
                uy == req'.y # view_y
            IN pending_move_resize' =
                   [update_x |-> ux, update_y |-> uy,
                    x |-> IF ux THEN req'.x + (req'.width - c.width)
                          ELSE req'.x,
                    y |-> IF uy THEN req'.y + (req'.height - c.height)
                          ELSE req'.y,
                    width |-> c.width, height |-> c.height]]_vars
    /\ [][(MappedCommit /\ ticket # 0 /\ configure_serial = ticket
            /\ CommittedSize = ConstrainedReq(req)) =>
            /\ pending_move_resize.update_x =>
                   view_x' = req.x + req.width - ConstrainedReq(req).width
            /\ pending_move_resize.update_y =>
                   view_y' = req.y + req.height - ConstrainedReq(req).height]_vars

\* the example of the specification: x = 10, width 200 under min_width 300
\* ends at x = -90 once acknowledged
C7_Witness ==
    /\ last.op = "handle_surface_commit" /\ last.moved
    /\ ticket = 0
    /\ toplevel_current.min_width = 300
    /\ req.x = 10 /\ req.width = 200
    /\ pending_move_resize.update_x
    /\ view_width = 300
    /\ view_x = -90

\* C8: a commit that applies the deferred position sets, on each axis whose
\* update flag is true, the View coordinate to target position + (target
\* size - committed size), and leaves the coordinate of an unflagged axis
\* at its current value.
C8_ReconciledPosition ==
    [][(MappedCommit /\ last'.moved) =>
          /\ view_x' = IF pending_move_resize.update_x
                        THEN pending_move_resize.x +
                             (pending_move_resize.width - CommittedSize.width)
                        ELSE view_x
          /\ view_y' = IF pending_move_resize.update_y
                        THEN pending_move_resize.y +
                             (pending_move_resize.height - CommittedSize.height)
                        ELSE view_y]_vars

\* a commit applied the position on a flagged x axis with a committed size
\* that differs from the target size, the y axis being unflagged
C8_Witness ==
    /\ last.op = "handle_surface_commit" /\ last.moved
    /\ pending_move_resize.update_x
    /\ ~pending_move_resize.update_y
    /\ view_width # pending_move_resize.width
    /\ view_x = pending_move_resize.x + pending_move_resize.width - view_width
    /\ view_x # pending_move_resize.x

\* C9: move_resize on a toplevel applies the position within the call iff
\* the configure request yields no serial and no ticket is outstanding; a
\* nonzero serial becomes the ticket and leaves the position unchanged; no
\* serial while a ticket is outstanding leaves position and ticket unchanged.
C9_ImmediateOnlyWithoutSerialAndTicket ==
    [][ToplevelMoveResize =>
          /\ last'.moved <=> (ReturnedSerial = 0 /\ ticket = 0)
          /\ last'.moved =>
                 /\ view_x' = pending_move_resize'.x
                 /\ view_y' = pending_move_resize'.y
                 /\ ticket' = 0
          /\ ReturnedSerial # 0 =>
                 (ticket' = ReturnedSerial /\ PositionUnchanged)
          /\ (ReturnedSerial = 0 /\ ticket # 0) =>
                 (ticket' = ticket /\ PositionUnchanged)]_vars

\* a move_resize call moved the View within the call
C9_Witness ==
    /\ last.op = "move_resize" /\ last.moved
    /\ ticket = 0
    /\ view_x = 10
    /\ req.x = 10

(***************************************************************************)
(* Properties of the constraint solver (checked under SpecSolver).         *)
(***************************************************************************)
ValidBounds(min, max) == max = 0 \/ max >= min

InBounds(dim, min, max) == dim >= min /\ (max > 0 => dim <= max)

Constrained(dim, out, min, max) ==
    ValidBounds(min, max) =>
        /\ out >= min
        /\ max > 0 => out <= max
        /\ InBounds(dim, min, max) => out = dim

\* C5: under bounds with max = 0 or max >= min the solver returns a value
\* >= min, and <= max when max > 0, and returns the requested value when it
\* already lies within the bounds; each dimension by its own bounds only.
C5_WithinBounds ==
    solver.pc # "idle" =>
        /\ Constrained(solver.width, solver.out.width,
                       solver.state.min_width, solver.state.max_width)
        /\ Constrained(solver.height, solver.out.height,
                       solver.state.min_height, solver.state.max_height)

\* the width was clamped down to its maximum while the height, whose own
\* bounds are not even consistent, was clamped up to its minimum
C5_Witness ==
    /\ solver.pc = "constrained"
    /\ solver.state.max_width > 0
    /\ solver.width > solver.state.max_width
    /\ solver.out.width = solver.state.max_width
    /\ solver.state.max_width > solver.state.min_width
    /\ solver.height < solver.state.min_height
    /\ solver.out.height = solver.state.min_height
    /\ ~ValidBounds(solver.state.min_height, solver.state.max_height)

\* C6 as stated: for every combination of bounds, constraining the solver's
\* output again returns that output.
C6_IdempotentForAllBounds ==
    solver.pc = "again" => solver.again = solver.out

\* C6 amended: for every requested size and every combination of bounds in
\* which each maximum is 0 or >= its minimum, constraining the solver's
\* output again returns that output unchanged.
C6_IdempotentForValidBounds ==
    solver.pc = "again" =>
        /\ ValidBounds(solver.state.min_width, solver.state.max_width) =>
               solver.again.width = solver.out.width
        /\ ValidBounds(solver.state.min_height, solver.state.max_height) =>
               solver.again.height = solver.out.height

\* the solver ran twice on a size it had to clamp in both dimensions
C6_Witness ==
    /\ solver.pc = "again"
    /\ ValidBounds(solver.state.min_width, solver.state.max_width)
    /\ ValidBounds(solver.state.min_height, solver.state.max_height)
    /\ solver.out.width # solver.width
    /\ solver.out.height # solver.height
    /\ solver.again = solver.out

(***************************************************************************)
(* Properties of the popups (checked under SpecPopup).                     *)
(***************************************************************************)
\* C10: after a popup is destroyed none of its four listeners (destroy, map,
\* unmap, new_popup) is registered on a signal of its surface any more, and
\* no handler runs on the released popup.
C10_NoListenerAfterPopupDestroy ==
    /\ \A p \in PopupIds :
           popups[p].popup = "freed" => popups[p].listeners = {}
    /\ use_after_free = "none"

\* C11: once the view is destroyed, each of its nine listeners and each of
\* the four listeners of every popup has been unlinked, so that no listener
\* of the view or of a popup is registered any more and no handler of them
\* runs after the destruction.
C11_EveryListenerRemovedOnViewDestroy ==
    roots_surface_freed =>
        /\ view_listeners = {}
        /\ \A p \in PopupIds : popups[p].listeners = {}
        /\ use_after_free = "none"

(***************************************************************************)
(* Properties of the commit and of the pending record (checked under Spec).*)
(***************************************************************************)
\* C17: a commit notifies damage and pushes the freshly derived size to the
\* view if and only if the surface is mapped, on every such commit whether
\* or not the ticket or the position changes; a commit of an unmapped
\* surface changes nothing of the view (no damage, size, position, ticket).
C17_DamageAndSizeIffMapped ==
    [][last'.op = "handle_surface_commit" =>
          IF mapped
          THEN /\ last'.damaged
               /\ view_width' = CommittedSize.width
               /\ view_height' = CommittedSize.height
          ELSE /\ ~last'.damaged
               /\ UNCHANGED <<viewVars, ticketVars>>]_vars

\* a mapped commit without a ticket left the position alone, notified
\* damage and pushed a size the view did not have before
C17_Witness ==
    /\ last.op = "handle_surface_commit"
    /\ last.damaged /\ ~last.moved
    /\ mapped
    /\ ticket = 0
    /\ seq.closed = 0
    /\ view_width = 300 /\ view_height = 40

\* the pending record holds the target geometry of a call with arguments r
TargetOf(r) ==
    LET c == ConstrainedReq(r)
        pmr == pending_move_resize
    IN /\ pmr.width = c.width
       /\ pmr.height = c.height
       /\ pmr.x = IF pmr.update_x THEN r.x + r.width - c.width ELSE r.x
       /\ pmr.y = IF pmr.update_y THEN r.y + r.height - c.height ELSE r.y

\* C19 as stated: whenever the ticket is nonzero, the pending record holds
\* the target geometry of the same move_resize call that obtained the
\* serial of the ticket, whatever calls with and without a serial were made.
C19_RecordOfTicketCall ==
    ticket # 0 => TargetOf(issuer)

\* C19 amended: whenever the ticket is nonzero, the pending record holds the
\* target geometry of the most recent move_resize call, which is the call
\* that obtained the serial of the ticket only if no later call was made.
C19_RecordOfLatestCall ==
    ticket # 0 => TargetOf(req)

\* the ticket is the serial of one call and the record the target of a
\* later call that obtained no serial
C19_Witness ==
    /\ ticket # 0
    /\ issuer # req
    /\ TargetOf(req)
    /\ ~TargetOf(issuer)

\* C20 as stated, in the form a finite run refutes: if the surface stays
\* mapped, no further move_resize is issued and the client, which keeps
\* committing, acknowledges the latest configure serial issued (possibly
\* skipping earlier ones), the ticket is eventually cleared.  After a mapped
\* commit made with the latest serial acknowledged no later commit of such a
\* run changes the ticket, so the ticket has to be zero by then.
C20_ClearedOnceLatestAcked ==
    /\ last.op = "handle_surface_commit"
    /\ mapped
    /\ configure_serial > 0
    /\ configure_serial = next_serial - 1
    => ticket = 0

\* C20 amended: if the surface stays mapped, no further move_resize obtains
\* a serial and the client, which keeps committing, has acknowledged
\* exactly the serial of the ticket and acknowledges no later one before it
\* commits, the ticket is eventually cleared.
C20_ClearedOnExactAck ==
    (mapped /\ ticket # 0 /\ configure_serial = ticket)
        ~> (ticket = 0 \/ ~mapped \/ configure_serial # ticket)

\* the commit that acknowledged exactly the serial of the ticket cleared
\* it, while a later serial, obtained by resize, is yet to be acknowledged
C20_Witness ==
    /\ last.op = "handle_surface_commit" /\ last.moved
    /\ mapped
    /\ ticket = 0
    /\ issuer = NoReq
    /\ configure_serial > 0
    /\ next_serial > configure_serial + 1

(***************************************************************************)
(* Properties of the surface's announcement and requests (SpecSurface).    *)
(***************************************************************************)
\* C12: when the view cannot be created, every listener registered so far
\* is unlinked before the per-surface record is freed: no listener lying in
\* a freed record stays registered and no handler runs on one.
C12_ListenersRolledBackOnViewCreateFailure ==
    roots_surface_freed =>
        /\ view_listeners = {}
        /\ use_after_free = "none"

\* C13: a request for an interactive move or resize is silently ignored
\* (nothing begins, no assertion fails) whenever no seat is found or the
\* cursor of the seat is not in passthrough mode, and the move or resize
\* begins only when the seat is found and its cursor is in passthrough mode.
C13_RequestIgnoredUnlessSeatIdle ==
    [][last'.op \in {"handle_request_move", "handle_request_resize"} =>
          /\ ~aborted'
          /\ last'.moved <=>
                 (req'.seat /\ cursor_mode = ROOTS_CURSOR_PASSTHROUGH)
          /\ ~last'.moved => cursor_mode' = cursor_mode]_vars

(***************************************************************************)
(* Properties of the popup tree (checked under SpecPopup).                 *)
(***************************************************************************)
\* C15: every popup, at any depth below the toplevel, is attached to the
\* view of the toplevel: a popup created below another popup gets the view
\* of the popup that spawned it, never that popup itself.
C15_PopupsAttachedToToplevelView ==
    \A p \in PopupIds :
        popups[p].popup = "live" =>
            /\ popups[p].view = 0
            /\ popups[p].parent # 0 /\ popups[popups[p].parent].popup = "live"
                   => popups[p].view = popups[popups[p].parent].view

\* a popup created below another popup is attached to the toplevel's view
C15_Witness ==
    \E p \in PopupIds :
        /\ popups[p].popup = "live"
        /\ popups[p].parent # 0
        /\ popups[p].view = 0

\* the requests close sent before its last one
Before == SubSeq(wire, 1, Len(wire) - 1)

\* the last request is a close of the toplevel and the only one
ToplevelClosedLast ==
    /\ Len(wire) > 0
    /\ wire[Len(wire)] = Send("close", 0, 0, 0)
    /\ \A i \in 1..Len(Before) : Before[i].surface # 0

\* popup p is sent a close, once, before the last request
ClosedBefore(p) ==
    Cardinality({i \in 1..Len(Before) : Before[i] = Send("close", p, 0, 0)}) = 1

GuardedOps == {"activate", "resize", "move_resize", "maximize",
               "set_fullscreen"}

\* the step leaves the position, the pending record and the ticket alone
NoBookkeeping ==
    /\ PositionUnchanged
    /\ pending_move_resize' = pending_move_resize
    /\ ticket' = ticket

\* the step sends nothing and changes nothing of the view
WithoutEffect ==
    /\ last'.op # "handle_destroy" => wire' = <<>>
    /\ NoBookkeeping
    /\ next_serial' = next_serial
    /\ view_listeners' = view_listeners
    /\ roots_surface_freed' = roots_surface_freed

C18_OnlyMoveResizeKeepsBooks ==
    [][role = ROLE_TOPLEVEL
          /\ last'.op \in {"resize", "maximize", "set_fullscreen", "activate"}
          => /\ NoBookkeeping
             /\ last'.op = "resize" =>
                    LET c == apply_size_constraints(toplevel_current,
                                 solver'.width, solver'.height)
                    IN /\ wire' = <<Send("set_size", 0, c.width, c.height)>>
                       /\ InBounds(c.width, toplevel_current.min_width,
                                   toplevel_current.max_width)
                       /\ InBounds(c.height, toplevel_current.min_height,
                                   toplevel_current.max_height)]_vars

\* resize of a toplevel with a ticket outstanding was asked for a width
\* below min_width and sent min_width, the ticket and the record as before
C18_Witness ==
    /\ role = ROLE_TOPLEVEL
    /\ last.op = "resize"
    /\ ticket # 0
    /\ pending_move_resize # NoRecord
    /\ solver.width < toplevel_current.min_width
    /\ Len(wire) = 1
    /\ wire[1].width = toplevel_current.min_width

====
